---- MODULE Spec2Model ----
(***************************************************************************)
(* fastapi_mail.connection.Connection: the lifecycle of one outbound mail  *)
(* transport session (construct, open = __aenter__, close = __aexit__).    *)
(*                                                                         *)
(* The transport client (smtplib) and the TLS machinery (ssl) are outside  *)
(* the module; every operation the code issues on them is appended to the  *)
(* session's log, with the arguments the call site passes and with the     *)
(* outcome the environment chose for it (ok or failed).                    *)
(***************************************************************************)
EXTENDS Integers, Sequences, FiniteSets

\* Bound: how many times open() is called on one session object.
MaxOpens == 2

\* Bound: how many times the caller writes to a configuration object after
\* it has constructed the session from it.
MaxWrites == 1

\* The session objects of the calling program.
Sess == {1, 2}

\* ------------------------------------------------------------------------
\* Configuration values

Servers == {"smtp.example.com"}
Ports == {465, 587}
Usernames == {"a", "None"}

\* A conforming configuration object (a pydantic settings instance).
ConfigFields ==
    [MAIL_SERVER : Servers, MAIL_PORT : Ports, MAIL_USERNAME : Usernames,
     MAIL_PASSWORD : {"b"}, MAIL_TLS : BOOLEAN, MAIL_SSL : BOOLEAN,
     USE_CREDENTIALS : BOOLEAN, VALIDATE_CERTS : BOOLEAN,
     SUPPRESS_SEND : BOOLEAN]

\* The value of self.settings before __init__ has stored anything.
NoSettings ==
    [MAIL_SERVER |-> "unset", MAIL_PORT |-> 0, MAIL_USERNAME |-> "unset",
     MAIL_PASSWORD |-> "unset", MAIL_TLS |-> FALSE, MAIL_SSL |-> FALSE,
     USE_CREDENTIALS |-> FALSE, VALIDATE_CERTS |-> FALSE,
     SUPPRESS_SEND |-> FALSE]

\* What a caller may hand to Connection(...): a ConnectionConfig instance, or
\* a plain mapping with the same keys (not a Settings subclass).
Args ==
    [cls : {"ConnectionConfig"}, fields : ConfigFields]
      \cup [cls : {"dict"},
            fields : {f \in ConfigFields :
                        /\ f.MAIL_PORT = 587 /\ f.MAIL_USERNAME = "a"
                        /\ f.MAIL_TLS /\ ~f.MAIL_SSL /\ f.USE_CREDENTIALS
                        /\ f.VALIDATE_CERTS /\ ~f.SUPPRESS_SEND}]

NoArg == [cls |-> "none", fields |-> NoSettings]

\* ------------------------------------------------------------------------
\* Exceptions

NoError == [from |-> "none", kind |-> "none", cause |-> "none"]

\* ------------------------------------------------------------------------
\* TLS contexts

\* ssl.SSLContext() as constructed: nothing is verified.
SSLContext ==
    [check_hostname |-> FALSE, verify_mode |-> "CERT_NONE", cafile |-> "none"]

\* The marker for "no context argument was passed".
NoCtx == [check_hostname |-> FALSE, verify_mode |-> "unset", cafile |-> "unset"]

\* Mutant: the hostname check is switched on, the rest is left as constructed.
BuildContext_HostnameOnly(validate_certs) ==
    IF validate_certs
    THEN [check_hostname |-> TRUE, verify_mode |-> "CERT_NONE", cafile |-> "none"]
    ELSE SSLContext

BuildContext(validate_certs) ==
    IF validate_certs
    THEN [check_hostname |-> TRUE, verify_mode |-> "CERT_REQUIRED",
          cafile |-> "certifi"]
    ELSE SSLContext

\* ------------------------------------------------------------------------
\* Log entries: one per operation issued on the TLS machinery or on a
\* transport handle h (0: no handle involved).

Entry(op, h, host, port, ctx, user, pass) ==
    [op |-> op, h |-> h, host |-> host, port |-> port, ctx |-> ctx,
     user |-> user, pass |-> pass, ok |-> TRUE]

TransportOps == {"open_ssl", "open_plain", "starttls", "connect", "login", "quit"}
OpenOps == {"open_ssl", "open_plain"}

VARIABLES
    arg,        \* arg[s]: the configuration object the caller holds for s
    state,      \* state[s]: lifecycle of session s
    settings,   \* settings[s]: self.settings
    session,    \* session[s]: self.session, a handle id (0: never assigned)
    log,        \* log[s]: operations issued by session s, in order
    depth,      \* depth[s]: scopes entered through open() and not yet left
    raised,     \* raised[s]: exception that escaped the last operation on s
    writes      \* writes[s]: writes of the caller to arg[s] since construction

vars == <<arg, state, settings, session, log, depth, raised, writes>>

\* Mutant: the attribute is stored on the class, shared by all instances.
Assign_ClassAttribute(f, s, v) == [t \in DOMAIN f |-> v]

\* self.<attribute> = v: the attribute of the instance s is set.
Assign(f, s, v) == [f EXCEPT ![s] = v]

\* ------------------------------------------------------------------------
\* Reading the log

RECURSIVE Count(_, _)
\* How many entries of l have their op in ops.
Count(l, ops) ==
    IF l = <<>> THEN 0
    ELSE (IF l[1].op \in ops THEN 1 ELSE 0) + Count(Tail(l), ops)

\* Calls of open() so far: each call starts by building a TLS context.
Opens(l) == Count(l, {"new_context"})

\* Transport objects constructed so far, the failed constructions included.
NextId(l) == Count(l, OpenOps) + 1

\* Handles that were established: the constructor returned.
Established(l) ==
    {l[i].h : i \in {j \in 1..Len(l) : l[j].op \in OpenOps /\ l[j].ok}}

\* Quit commands issued on handle h.
Quits(l, h) == Cardinality({i \in 1..Len(l) : l[i].op = "quit" /\ l[i].h = h})

\* ------------------------------------------------------------------------
\* The connection behind a handle

\* The host of a (re)connection: smtplib's connect() falls back to
\* "localhost" (and, for port 0, to the client's default port) when the
\* call site passes no host.
ConnectHost(host) == IF host = "none" THEN "localhost" ELSE host

\* The connection of handle h after the first j entries of l: the transport
\* constructor and connect() each open a new socket, which replaces the one
\* the handle had; STARTTLS upgrades the socket the handle has at that time.
Conn(l, h, j) ==
    LET made == {i \in 1..j : l[i].h = h /\ l[i].ok
                               /\ l[i].op \in OpenOps \cup {"connect"}}
        implicit == \E i \in 1..j : l[i].h = h /\ l[i].op = "open_ssl"
    IN  IF made = {}
        THEN [host |-> "none", port |-> 0, tls |-> FALSE]
        ELSE LET i == CHOOSE m \in made : \A m2 \in made : m2 <= m
             IN  [host |-> ConnectHost(l[i].host), port |-> l[i].port,
                  tls |-> implicit \/ \E k \in (i + 1)..j :
                             l[k].h = h /\ l[k].op = "starttls" /\ l[k].ok]

\* ------------------------------------------------------------------------
\* Connection.__init__

\* Mutant: the class of the argument is not checked.
IsSettings_AcceptsAny(cls) == TRUE

IsSettings(cls) == cls = "ConnectionConfig"

\* settings.dict(): a new mapping holding the values of the fields.
dict(fields) == [k \in DOMAIN fields |-> fields[k]]

PydanticClassRequired ==
    [from |-> "construct", kind |-> "PydanticClassRequired", cause |-> "none"]

init(s) ==
    /\ state[s] = "Unconfigured"
    /\ IF IsSettings(arg[s].cls)
       THEN /\ settings' = Assign(settings, s, dict(arg[s].fields))
            /\ state' = [state EXCEPT ![s] = "Pending"]
            /\ raised' = [raised EXCEPT ![s] = NoError]
       ELSE /\ raised' = [raised EXCEPT ![s] = PydanticClassRequired]
            /\ state' = [state EXCEPT ![s] = "Rejected"]
            /\ UNCHANGED settings
    /\ UNCHANGED <<arg, session, log, depth, writes>>

\* ------------------------------------------------------------------------
\* Connection._configure_connection

\* The error the environment raises when the operation op fails.
ErrorOf(op) ==
    CASE op = "new_context" -> "SSLError"
      [] op \in OpenOps     -> "OSError"
      [] op = "starttls"    -> "SMTPNotSupportedError"
      [] op = "connect"     -> "SMTPConnectError"
      [] op = "login"       -> "SMTPAuthenticationError"
      [] OTHER              -> "SMTPServerDisconnected"

\* Mutant: the error of the failing step escapes open() as it is.
ConnectionErrors_Unwrapped(error) ==
    [from |-> "open", kind |-> error, cause |-> "none"]

\* except Exception as error: raise ConnectionErrors(f'... {error} ...')
ConnectionErrors(error) ==
    [from |-> "open", kind |-> "ConnectionErrors", cause |-> error]

ContextStep(st) ==
    <<Entry("new_context", 0, "none", 0, BuildContext(st.VALIDATE_CERTS),
            "none", "none")>>

\* Mutant: the plain client is used whatever MAIL_SSL is.
OpenOp_AlwaysPlain(st) == "open_plain"

OpenOp(st) == IF st.MAIL_SSL THEN "open_ssl" ELSE "open_plain"

\* smtplib.SMTP_SSL(server, port=port) or smtplib.SMTP(server, port=port):
\* the constructor opens the connection to server:port.
OpenStep(st, id) ==
    <<Entry(OpenOp(st), id, st.MAIL_SERVER, st.MAIL_PORT, NoCtx, "none", "none")>>

\* Mutant: STARTTLS is skipped on an implicit-TLS transport.
StartTLSStep_SkippedOnSSL(st, id) ==
    IF st.MAIL_TLS /\ ~st.MAIL_SSL
    THEN <<Entry("starttls", id, "none", 0, BuildContext(st.VALIDATE_CERTS),
                 "none", "none")>>
    ELSE <<>>

StartTLSStep(st, id) ==
    IF st.MAIL_TLS
    THEN <<Entry("starttls", id, "none", 0, BuildContext(st.VALIDATE_CERTS),
                 "none", "none")>>
    ELSE <<>>

\* Mutant: login is decided by the presence of a username.
LoginStep_WhenUsernameSet(st, id) ==
    IF st.MAIL_USERNAME # "None"
    THEN <<Entry("login", id, "none", 0, NoCtx,
                 st.MAIL_USERNAME, st.MAIL_PASSWORD)>>
    ELSE <<>>

LoginStep(st, id) ==
    IF st.USE_CREDENTIALS
    THEN <<Entry("login", id, "none", 0, NoCtx,
                 st.MAIL_USERNAME, st.MAIL_PASSWORD)>>
    ELSE <<>>

\* self.session.connect() is called without arguments.
ConnectSteps(st, id) ==
    IF ~st.SUPPRESS_SEND
    THEN <<Entry("connect", id, "none", 0, NoCtx, "none", "none")>>
           \o LoginStep(st, id)
    ELSE <<>>

\* Mutant: STARTTLS is issued before the transport is opened.
Plan_StartTLSFirst(st, id) ==
    ContextStep(st) \o StartTLSStep(st, id) \o OpenStep(st, id)
      \o ConnectSteps(st, id)

\* The operations of the try block, in program order, when none fails.
Plan(st, id) ==
    ContextStep(st) \o OpenStep(st, id) \o StartTLSStep(st, id)
      \o ConnectSteps(st, id)

\* Mutant: the failure of the k-th operation is noted and the rest of the
\* block is still run.
Executed_ContinuesAfterFailure(plan, k) ==
    [i \in 1..Len(plan) |-> IF i = k THEN [plan[i] EXCEPT !.ok = FALSE] ELSE plan[i]]

\* The operations issued when the k-th one raises (k = 0: none raises):
\* the try block is left at the first exception.
Executed(plan, k) ==
    IF k = 0 THEN plan
    ELSE [i \in 1..k |-> IF i = k THEN [plan[i] EXCEPT !.ok = FALSE] ELSE plan[i]]

\* self.session after the try block: assigned once the constructor returned.
SessionAfter(cur, ops) ==
    LET got == {i \in 1..Len(ops) : ops[i].op \in OpenOps /\ ops[i].ok}
    IN  IF got = {} THEN cur ELSE ops[CHOOSE i \in got : TRUE].h

\* The exception leaving the try/except.
ErrorAfter(ops) ==
    IF ops # <<>> /\ ~ops[Len(ops)].ok
    THEN ConnectionErrors(ErrorOf(ops[Len(ops)].op))
    ELSE NoError

configure_connection(st, cur, id, k) ==
    LET ops == Executed(Plan(st, id), k)
    IN  [ops |-> ops, session |-> SessionAfter(cur, ops), error |-> ErrorAfter(ops)]

\* ------------------------------------------------------------------------
\* Connection.__aenter__

Constructed == {"Pending", "Configured", "Failed", "Closed"}

aenter(s) ==
    /\ state[s] \in Constructed
    /\ Opens(log[s]) < MaxOpens
    /\ \E k \in 0..Len(Plan(settings[s], NextId(log[s]))) :
         LET r == configure_connection(settings[s], session[s], NextId(log[s]), k)
         IN  /\ log' = [log EXCEPT ![s] = log[s] \o r.ops]
             /\ session' = Assign(session, s, r.session)
             /\ raised' = [raised EXCEPT ![s] = r.error]
             /\ IF r.error = NoError
                THEN /\ state' = [state EXCEPT ![s] = "Configured"]
                     /\ depth' = [depth EXCEPT ![s] = depth[s] + 1]
                ELSE /\ state' = [state EXCEPT ![s] = "Failed"]
                     /\ UNCHANGED depth
    /\ UNCHANGED <<arg, settings, writes>>

\* ------------------------------------------------------------------------
\* Connection.__aexit__

\* Mutant: quit is skipped when the body raised.
QuitIssued_NotOnRaise(st, exc) == ~st.SUPPRESS_SEND /\ ~exc

\* Mutant: quit is issued whatever SUPPRESS_SEND is.
QuitIssued_Always(st, exc) == TRUE

\* if not self.settings.get('SUPPRESS_SEND'): the exception of the body, if
\* any, is not looked at.
QuitIssued(st, exc) == ~st.SUPPRESS_SEND

QuitStep(st, exc, h, qok) ==
    IF QuitIssued(st, exc)
    THEN <<[Entry("quit", h, "none", 0, NoCtx, "none", "none") EXCEPT !.ok = qok]>>
    ELSE <<>>

\* What leaves the scope: the error of quit, else the exception of the body
\* (__aexit__ returns None, so it is not suppressed).
ExitError(ops, exc) ==
    IF ops # <<>> /\ ~ops[1].ok
    THEN [from |-> "close", kind |-> ErrorOf("quit"), cause |-> "none"]
    ELSE IF exc THEN [from |-> "body", kind |-> "BodyError", cause |-> "none"]
    ELSE NoError

\* The scope entered by open() is left, the body having returned (exc =
\* FALSE) or raised (exc = TRUE), and __aexit__ runs.
aexit(s) ==
    /\ depth[s] > 0
    /\ \E exc \in BOOLEAN, qok \in BOOLEAN :
         LET ops == QuitStep(settings[s], exc, session[s], qok)
         IN  /\ (ops = <<>> => qok)
             /\ log' = [log EXCEPT ![s] = log[s] \o ops]
             /\ raised' = [raised EXCEPT ![s] = ExitError(ops, exc)]
    /\ state' = [state EXCEPT ![s] = "Closed"]
    /\ depth' = [depth EXCEPT ![s] = depth[s] - 1]
    /\ UNCHANGED <<arg, settings, session, writes>>

\* ------------------------------------------------------------------------
\* Specification

\* The program constructs the sessions in S; the others never exist.
InitWith(S) ==
    /\ arg \in [Sess -> Args \cup {NoArg}]
    /\ \A s \in Sess : (arg[s] = NoArg) <=> (s \notin S)
    /\ state = [s \in Sess |-> IF s \in S THEN "Unconfigured" ELSE "Absent"]
    /\ settings = [s \in Sess |-> NoSettings]
    /\ session = [s \in Sess |-> 0]
    /\ log = [s \in Sess |-> <<>>]
    /\ depth = [s \in Sess |-> 0]
    /\ raised = [s \in Sess |-> NoError]
    /\ writes = [s \in Sess |-> 0]

Init == InitWith({1})

Next ==
    \/ \E s \in Sess : init(s)
    \/ \E s \in Sess : aenter(s)
    \/ \E s \in Sess : aexit(s)

Spec == Init /\ [][Next]_vars

\* Two sessions in one program: the first connects to a plain transport
\* and verifies certificates, the second is a dry-run STARTTLS session
\* that may or may not verify them.
TwoArgs ==
    [s \in Sess |->
       {a \in Args :
          /\ a.cls = "ConnectionConfig"
          /\ a.fields.MAIL_PORT = 587 /\ a.fields.MAIL_USERNAME = "a"
          /\ ~a.fields.MAIL_SSL /\ ~a.fields.USE_CREDENTIALS
          /\ IF s = 1
             THEN /\ ~a.fields.MAIL_TLS /\ ~a.fields.SUPPRESS_SEND
                  /\ a.fields.VALIDATE_CERTS
             ELSE a.fields.MAIL_TLS /\ a.fields.SUPPRESS_SEND}]

InitTwo == InitWith(Sess) /\ \A s \in Sess : arg[s] \in TwoArgs[s]

SpecTwo == InitTwo /\ [][Next]_vars

\* ------------------------------------------------------------------------
\* The caller writes to its configuration object after construction

\* The fields the caller writes to, with the values it may write.
Written ==
    [MAIL_PORT |-> Ports, MAIL_TLS |-> BOOLEAN, SUPPRESS_SEND |-> BOOLEAN]

\* Mutant: self.settings is the caller's object itself, not a copy of it.
AfterCallerWrite_Aliased(stored, written) == written

\* self.settings after the caller wrote to its object (now holding the
\* fields "written"): self.settings is the mapping settings.dict() returned,
\* which the write does not reach.
AfterCallerWrite(stored, written) == stored

config_write(s) ==
    /\ state[s] \in Constructed
    /\ writes[s] < MaxWrites
    /\ \E k \in DOMAIN Written : \E v \in Written[k] :
         /\ v # arg[s].fields[k]
         /\ LET new == [arg[s].fields EXCEPT ![k] = v]
            IN  /\ arg' = [arg EXCEPT ![s] = [arg[s] EXCEPT !.fields = new]]
                /\ settings' = Assign(settings, s, AfterCallerWrite(settings[s], new))
    /\ writes' = [writes EXCEPT ![s] = writes[s] + 1]
    /\ UNCHANGED <<state, session, log, depth, raised>>

NextWrite == Next \/ \E s \in Sess : config_write(s)

SpecWrite == Init /\ [][NextWrite]_vars

\* ------------------------------------------------------------------------
\* Vocabulary of the properties

\* The live sessions: those that were constructed.
Live == {s \in Sess : state[s] \in Constructed}

\* The entry that starts the open() call to which entry j of l belongs.
Seg(l, j) ==
    LET starts == {i \in 1..j : l[i].op = "new_context"}
    IN  CHOOSE i \in starts : \A i2 \in starts : i2 <= i

\* The entries of l issued by the open() call that starts at entry i.
Call(l, i) == {j \in i..Len(l) : l[j].op # "quit" /\ Seg(l, j) = i}

Starts(l) == {i \in 1..Len(l) : l[i].op = "new_context"}

\* The open() call starting at i raised.
CallFailed(l, i) == \E j \in Call(l, i) : ~l[j].ok

\* The last entry of l is an operation of open() that failed.
OpenJustFailed(l) == l # <<>> /\ l[Len(l)].op # "quit" /\ ~l[Len(l)].ok

\* Handle h is held open: established and never quit.
HeldOpen(l, h) == h \in Established(l) /\ Quits(l, h) = 0

Rank(op) ==
    CASE op = "new_context" -> 1
      [] op \in OpenOps     -> 2
      [] op = "starttls"    -> 3
      [] op = "connect"     -> 4
      [] op = "login"       -> 5
      [] OTHER              -> 6

\* ------------------------------------------------------------------------
\* C1. Guaranteed teardown. For a session with SUPPRESS_SEND unset, every
\* exit of a scope that a successful open() entered (the body returned or
\* raised) issues exactly one quit, on the handle the session holds: the
\* quits issued so far plus the scopes still open always equal the
\* successful open() calls, and once the last scope is left the handle the
\* session holds has been quit.
C1_ExitQuitsOnce ==
    \A s \in Sess :
      (depth'[s] < depth[s] /\ ~settings[s].SUPPRESS_SEND) =>
         /\ Len(log'[s]) = Len(log[s]) + 1
         /\ log'[s][Len(log'[s])].op = "quit"
         /\ log'[s][Len(log'[s])].h = session[s]
         /\ SubSeq(log'[s], 1, Len(log[s])) = log[s]

C1_QuitsMatchScopes ==
    \A s \in Live :
      ~settings[s].SUPPRESS_SEND =>
         /\ Count(log[s], {"quit"}) + depth[s]
              = Cardinality({i \in Starts(log[s]) : ~CallFailed(log[s], i)})
         /\ (state[s] = "Closed" /\ depth[s] = 0) =>
               /\ session[s] \in Established(log[s])
               /\ Quits(log[s], session[s]) >= 1
               /\ (Opens(log[s]) = 1 => Quits(log[s], session[s]) = 1)

C1_GuaranteedTeardown == [][C1_ExitQuitsOnce]_vars /\ []C1_QuitsMatchScopes

\* The body raised, the scope was left, and the handle was quit once.
C1_Witness ==
    /\ ~settings[1].SUPPRESS_SEND
    /\ state[1] = "Closed"
    /\ raised[1].from = "body"
    /\ Quits(log[1], session[1]) = 1

\* ------------------------------------------------------------------------
\* C2. Whatever step of open() fails (TLS context, transport open,
\* STARTTLS, connect, login), open() raises ConnectionErrors carrying the
\* error of that step, and the session is Failed; nothing but
\* ConnectionErrors escapes open(), and no failed step is followed by a
\* further step of the same call.
C2_FailuresWrapped ==
    \A s \in Live :
      LET l == log[s] IN
      /\ state[s] = "Failed" =>
            /\ OpenJustFailed(l)
            /\ raised[s].from = "open"
            /\ raised[s].kind = "ConnectionErrors"
            /\ raised[s].cause = ErrorOf(l[Len(l)].op)
      /\ raised[s].from = "open" =>
            /\ raised[s].kind = "ConnectionErrors"
            /\ state[s] = "Failed"
      /\ state[s] = "Configured" =>
            /\ ~CallFailed(l, Seg(l, Len(l)))
            /\ raised[s] = NoError
      /\ \A j \in 1..Len(l) :
            (l[j].op # "quit" /\ ~l[j].ok) =>
               (j = Len(l) \/ l[j + 1].op \in {"new_context", "quit"})

\* The login was refused and open() raised ConnectionErrors carrying it.
C2_Witness ==
    /\ state[1] = "Failed"
    /\ log[1][Len(log[1])].op = "login"
    /\ raised[1] = ConnectionErrors("SMTPAuthenticationError")

\* ------------------------------------------------------------------------
\* C3. When open() fails after the transport was opened (STARTTLS, connect
\* or login failed), the session is Failed and holds no transport handle
\* that is still open.
C3_FailedHoldsNoHandle ==
    \A s \in Live :
      (/\ state[s] = "Failed"
       /\ log[s][Len(log[s])].op \in {"starttls", "connect", "login"}) =>
         ~HeldOpen(log[s], session[s])

\* ------------------------------------------------------------------------
\* C4. With SUPPRESS_SEND set, open() issues no transport operation at all
\* (no transport open, no STARTTLS, no connect, no login) and the session
\* is Configured.
C4_SuppressedOpenNoIO ==
    \A s \in Live :
      settings[s].SUPPRESS_SEND =>
         /\ Count(log[s], TransportOps) = 0
         /\ (Opens(log[s]) > 0 => state[s] \in {"Configured", "Closed"})

\* ------------------------------------------------------------------------
\* C5. With SUPPRESS_SEND set, close() is a no-op: leaving the scope issues
\* no quit and no other operation, and changes neither the handle the
\* session holds nor its settings.
C5_ExitNoOp ==
    \A s \in Sess :
      (depth'[s] < depth[s] /\ settings[s].SUPPRESS_SEND) =>
         /\ log'[s] = log[s]
         /\ session'[s] = session[s]
         /\ settings'[s] = settings[s]

C5_SuppressedCloseNoOp ==
    [][C5_ExitNoOp]_vars
      /\ [](\A s \in Live :
              settings[s].SUPPRESS_SEND => Count(log[s], {"quit"}) = 0)

\* A suppressed session was opened and closed.
C5_Witness ==
    /\ settings[1].SUPPRESS_SEND
    /\ state[1] = "Closed"
    /\ depth[1] = 0
    /\ session[1] # 0

\* ------------------------------------------------------------------------
\* C6. Handshake ordering. Within one open() the operations are issued in
\* the order TLS context, transport open, STARTTLS, connect, login; STARTTLS
\* is issued only with MAIL_TLS set and on the handle this call opened;
\* connect only on the handle this call opened; login only with
\* USE_CREDENTIALS set and after the connect of this call succeeded; quit
\* is issued only when a scope is left, on a handle that an earlier open()
\* established.
C6_OrderInCall ==
    \A s \in Live :
      LET l == log[s]
          opened(j) == \E i \in Call(l, Seg(l, j)) :
                          i < j /\ l[i].op \in OpenOps /\ l[i].ok /\ l[i].h = l[j].h
      IN
      /\ l # <<>> => l[1].op = "new_context"
      /\ \A i, j \in 1..Len(l) :
            (i < j /\ l[i].op # "quit" /\ l[j].op # "quit"
               /\ Seg(l, i) = Seg(l, j)) => Rank(l[i].op) < Rank(l[j].op)
      /\ \A j \in 1..Len(l) :
            /\ l[j].op = "starttls" => settings[s].MAIL_TLS /\ opened(j)
            /\ l[j].op = "connect" => opened(j)
            /\ l[j].op = "login" =>
                  /\ settings[s].USE_CREDENTIALS
                  /\ \E i \in Call(l, Seg(l, j)) :
                        i < j /\ l[i].op = "connect" /\ l[i].ok /\ l[i].h = l[j].h
            /\ l[j].op = "quit" =>
                  \E i \in 1..(j - 1) :
                     l[i].op \in OpenOps /\ l[i].ok /\ l[i].h = l[j].h

C6_QuitOnlyOnExit ==
    \A s \in Sess :
      Count(log'[s], {"quit"}) # Count(log[s], {"quit"}) =>
         /\ depth'[s] = depth[s] - 1
         /\ Count(log'[s], {"quit"}) = Count(log[s], {"quit"}) + 1
         /\ Opens(log'[s]) = Opens(log[s])

C6_HandshakeOrdering == []C6_OrderInCall /\ [][C6_QuitOnlyOnExit]_vars

\* All five steps of one open() succeeded and the scope was left with quit.
C6_Witness ==
    /\ Len(log[1]) = 6
    /\ \A j \in 1..6 : log[1][j].ok /\ Rank(log[1][j].op) = j

\* ------------------------------------------------------------------------
\* C7. Every open() that got past the TLS context opens the transport
\* exactly once, against the configured server and port: with implicit TLS
\* if MAIL_SSL is set, plain otherwise. An implicit-TLS handle is opened
\* before any STARTTLS of the call and is never opened plain.
C7_OpenMode ==
    \A s \in Live :
      LET l == log[s] IN
      /\ \A i \in Starts(l) :
            LET opens == {j \in Call(l, i) : l[j].op \in OpenOps}
            IN  /\ Cardinality(opens) = (IF l[i].ok THEN 1 ELSE 0)
                /\ \A j \in opens :
                      \A k \in Call(l, i) : l[k].op = "starttls" => j < k
      /\ \A j \in 1..Len(l) :
            l[j].op \in OpenOps =>
               /\ l[j].op = (IF settings[s].MAIL_SSL THEN "open_ssl" ELSE "open_plain")
               /\ l[j].host = settings[s].MAIL_SERVER
               /\ l[j].port = settings[s].MAIL_PORT

\* An implicit-TLS transport was opened to port 465 and the session is
\* Configured.
C7_Witness ==
    /\ settings[1].MAIL_SSL
    /\ settings[1].MAIL_PORT = 465
    /\ state[1] = "Configured"
    /\ \E j \in 1..Len(log[1]) : log[1][j].op = "open_ssl" /\ log[1][j].ok

\* ------------------------------------------------------------------------
\* C8. An open() whose transport open succeeded issues STARTTLS if and only
\* if MAIL_TLS is set, whatever MAIL_SSL is; no open() fails unless one of
\* its operations failed, so MAIL_SSL together with MAIL_TLS raises nothing
\* by itself.
C8_StartTLSIffMailTLS ==
    \A s \in Live :
      LET l == log[s] IN
      /\ \A i \in Starts(l) :
            (\E j \in Call(l, i) : l[j].op \in OpenOps /\ l[j].ok) =>
               ((\E j \in Call(l, i) : l[j].op = "starttls")
                  <=> settings[s].MAIL_TLS)
      /\ \A j \in 1..Len(l) : l[j].op = "starttls" => settings[s].MAIL_TLS
      /\ state[s] = "Failed" => CallFailed(l, Seg(l, Len(l)))

\* MAIL_SSL and MAIL_TLS both set: implicit-TLS open and STARTTLS both
\* succeeded and the session is Configured.
C8_Witness ==
    /\ settings[1].MAIL_SSL /\ settings[1].MAIL_TLS
    /\ state[1] = "Configured"
    /\ \E i, j \in 1..Len(log[1]) :
          /\ log[1][i].op = "open_ssl" /\ log[1][i].ok
          /\ log[1][j].op = "starttls" /\ log[1][j].ok

\* ------------------------------------------------------------------------
\* C9. A login is issued only with USE_CREDENTIALS set and SUPPRESS_SEND
\* unset: with USE_CREDENTIALS unset no login is ever issued, whether or not
\* a username and password are configured; and an open() with
\* USE_CREDENTIALS set whose connect succeeded does issue it.
C9_LoginOnlyWithCredentials ==
    \A s \in Live :
      LET l == log[s] IN
      /\ \A j \in 1..Len(l) :
            l[j].op = "login" =>
               /\ settings[s].USE_CREDENTIALS /\ ~settings[s].SUPPRESS_SEND
               /\ l[j].user = settings[s].MAIL_USERNAME
               /\ l[j].pass = settings[s].MAIL_PASSWORD
      /\ \A j \in 1..Len(l) :
            (l[j].op = "connect" /\ l[j].ok /\ settings[s].USE_CREDENTIALS) =>
               (j < Len(l) /\ l[j + 1].op = "login")

\* USE_CREDENTIALS unset with a username configured: the session connected
\* and was closed without any login.
C9_Witness ==
    /\ ~settings[1].USE_CREDENTIALS
    /\ settings[1].MAIL_USERNAME = "a"
    /\ state[1] = "Closed"
    /\ Count(log[1], {"connect"}) = 1
    /\ Count(log[1], {"login"}) = 0

\* ------------------------------------------------------------------------
\* C10. A session is single-use: over any sequence of open() and close()
\* calls it establishes at most one transport handle (an open() on a session
\* that is already Configured, Failed or Closed establishes none).
C10_SingleUse ==
    \A s \in Sess : Cardinality(Established(log[s])) <= 1

\* ------------------------------------------------------------------------
\* C11. Connection(settings) with a value that is not a settings object
\* raises PydanticClassRequired at construction: no operation on the TLS
\* machinery or on a transport was issued, nothing was stored, and the
\* session never becomes usable (it is never opened). Construction from a
\* conforming configuration issues no operation either.
C11_ConstructRejectsOrStores ==
    \A s \in Sess :
      /\ (arg[s].cls # "ConnectionConfig") =>
            /\ state[s] \in {"Absent", "Unconfigured", "Rejected"}
            /\ log[s] = <<>>
            /\ session[s] = 0
            /\ settings[s] = NoSettings
      /\ state[s] = "Rejected" =>
            /\ arg[s].cls # "ConnectionConfig"
            /\ raised[s].kind = "PydanticClassRequired"
            /\ raised[s].from = "construct"
      /\ state[s] = "Pending" =>
            /\ arg[s].cls = "ConnectionConfig"
            /\ log[s] = <<>>
            /\ session[s] = 0
            /\ raised[s] = NoError

\* A plain mapping was passed and the construction was rejected.
C11_Witness ==
    /\ arg[1].cls = "dict"
    /\ state[1] = "Rejected"
    /\ raised[1] = PydanticClassRequired

\* ------------------------------------------------------------------------
\* C12. The TLS context that open() built successfully, and every context
\* handed to a transport operation, has hostname checking on, verify mode
\* CERT_REQUIRED and the certifi CA bundle loaded if VALIDATE_CERTS is set,
\* and hostname checking off with verify mode CERT_NONE otherwise.
C12_ContextFollowsValidateCerts ==
    \A s \in Live :
      \A j \in 1..Len(log[s]) :
        LET e == log[s][j] IN
        ((e.op = "new_context" /\ e.ok) \/ e.op = "starttls") =>
           IF settings[s].VALIDATE_CERTS
           THEN /\ e.ctx.check_hostname
                /\ e.ctx.verify_mode = "CERT_REQUIRED"
                /\ e.ctx.cafile = "certifi"
           ELSE /\ ~e.ctx.check_hostname
                /\ e.ctx.verify_mode = "CERT_NONE"
                /\ e.ctx.cafile = "none"

\* With VALIDATE_CERTS set, STARTTLS succeeded with the verifying context.
C12_Witness ==
    /\ settings[1].VALIDATE_CERTS
    /\ \E j \in 1..Len(log[1]) :
          /\ log[1][j].op = "starttls" /\ log[1][j].ok
          /\ log[1][j].ctx.verify_mode = "CERT_REQUIRED"

\* ------------------------------------------------------------------------
\* C13. The settings stored at construction are a snapshot of the caller's
\* configuration: they equal its fields as long as the caller has not
\* written to it, and no step changes them afterwards, neither open(),
\* close() or a failed open() nor a write of the caller to its object; the
\* session goes on using the stored values.
C13_SettingsKept ==
    \A s \in Sess : state[s] \in Constructed => settings'[s] = settings[s]

C13_SnapshotTaken ==
    \A s \in Live :
      /\ writes[s] = 0 => \A k \in DOMAIN arg[s].fields :
                             settings[s][k] = arg[s].fields[k]
      /\ \A j \in 1..Len(log[s]) :
            log[s][j].op \in OpenOps => log[s][j].port = settings[s].MAIL_PORT

C13_ImmutableSnapshot == [][C13_SettingsKept]_vars /\ []C13_SnapshotTaken

\* The caller changed the port of its object; the session was opened and
\* closed with the port stored at construction.
C13_Witness ==
    /\ writes[1] = 1
    /\ arg[1].fields.MAIL_PORT # settings[1].MAIL_PORT
    /\ state[1] = "Closed"
    /\ \E j \in 1..Len(log[1]) :
          log[1][j].op \in OpenOps /\ log[1][j].port = settings[1].MAIL_PORT

\* ------------------------------------------------------------------------
\* C14. Failure is terminal inside open(): one call issues each of
\* transport open, STARTTLS, connect and login at most once, and the
\* operation that failed is the last one of its call (nothing is retried
\* and no later step is issued).
C14_FailureEndsCall ==
    \A s \in Live :
      LET l == log[s] IN
      \A i \in Starts(l) :
        /\ \A ops \in {OpenOps, {"starttls"}, {"connect"}, {"login"}} :
              Cardinality({j \in Call(l, i) : l[j].op \in ops}) <= 1
        /\ \A j \in Call(l, i) :
              ~l[j].ok => \A j2 \in Call(l, i) : j2 <= j

\* STARTTLS failed in a call that would have gone on to connect and login.
C14_Witness ==
    /\ state[1] = "Failed"
    /\ ~settings[1].SUPPRESS_SEND /\ settings[1].USE_CREDENTIALS
    /\ log[1][Len(log[1])].op = "starttls"
    /\ Count(log[1], {"connect", "login"}) = 0

\* ------------------------------------------------------------------------
\* C15. Independent sessions share no mutable state: every step is a step
\* of one session and changes nothing of any other session, whatever the
\* interleaving and whether the step succeeds or fails; the handle a session
\* holds is one it established itself, and the TLS context of each of its
\* open() calls is built from its own VALIDATE_CERTS.
Own(s) ==
    <<arg[s], state[s], settings[s], session[s], log[s], depth[s], raised[s],
      writes[s]>>

C15_OneSessionPerStep ==
    \E t \in Sess : \A s \in Sess \ {t} : Own(s)' = Own(s)

C15_OwnHandleAndContext ==
    \A s \in Live :
      /\ session[s] \in Established(log[s]) \cup {0}
      /\ \A k \in DOMAIN arg[s].fields : settings[s][k] = arg[s].fields[k]
      /\ \A j \in 1..Len(log[s]) :
            log[s][j].op \in {"new_context", "starttls"} =>
               log[s][j].ctx.check_hostname = settings[s].VALIDATE_CERTS

C15_NoSharedState == [][C15_OneSessionPerStep]_vars /\ []C15_OwnHandleAndContext

\* Session 1 verifies certificates and is Configured; session 2 does not,
\* and its open() failed meanwhile.
C15_Witness ==
    /\ settings[1].VALIDATE_CERTS /\ ~settings[2].VALIDATE_CERTS
    /\ state[1] = "Configured" /\ state[2] = "Failed"
    /\ session[1] = 1 /\ depth[1] = 1

\* ------------------------------------------------------------------------
\* C16. open() and close() suspend at the points where network I/O occurs
\* (transport open, STARTTLS, connect, login, quit), so that another task
\* can take a step there: no step of a session that cannot be interleaved
\* with the steps of another task issues more than one network operation.
C16_OneNetworkOpPerStep ==
    \A s \in Sess :
      Count(log'[s], TransportOps) <= Count(log[s], TransportOps) + 1

C16_SuspendsAtIO == [][C16_OneNetworkOpPerStep]_vars

\* ------------------------------------------------------------------------
\* C17. When VALIDATE_CERTS is set and a session is Configured over an
\* encrypted transport (MAIL_SSL or MAIL_TLS set, SUPPRESS_SEND unset),
\* every TLS handshake of its open() calls, the implicit-TLS open as well as
\* STARTTLS, was given the verifying context built at the start of the call.
C17_HandshakesUseVerifyingContext ==
    \A s \in Live :
      (/\ settings[s].VALIDATE_CERTS /\ ~settings[s].SUPPRESS_SEND
       /\ (settings[s].MAIL_SSL \/ settings[s].MAIL_TLS)
       /\ state[s] = "Configured") =>
         \A j \in 1..Len(log[s]) :
           log[s][j].op \in {"open_ssl", "starttls"} =>
              /\ log[s][j].ctx.check_hostname
              /\ log[s][j].ctx.verify_mode = "CERT_REQUIRED"
              /\ log[s][j].ctx.cafile = "certifi"

\* ------------------------------------------------------------------------
\* C18. The connect step of open() leaves the handle on the connection it
\* had: the one opened to the configured server and port and, with MAIL_TLS
\* set, upgraded by STARTTLS. So every login issued with MAIL_SSL or
\* MAIL_TLS set goes over an encrypted connection to the configured server
\* and port.
C18_ConnectKeepsConnection ==
    \A s \in Live :
      LET l == log[s] IN
      \A j \in 1..Len(l) :
        /\ (l[j].op = "connect" /\ l[j].ok) =>
              Conn(l, l[j].h, j) = Conn(l, l[j].h, j - 1)
        /\ (l[j].op = "login" /\ (settings[s].MAIL_SSL \/ settings[s].MAIL_TLS)) =>
              /\ Conn(l, l[j].h, j - 1).host = settings[s].MAIL_SERVER
              /\ Conn(l, l[j].h, j - 1).port = settings[s].MAIL_PORT
              /\ Conn(l, l[j].h, j - 1).tls

====
